---- MODULE Spec2Model ----
(***************************************************************************)
(* Model of the BuildShip agent runner: the per-agent stream consumer      *)
(* (use-agent.ts), the session utilities (session-utils.ts), the debug     *)
(* trace reducer (debug-handlers.ts).                                      *)
(*                                                                         *)
(* React state updates are taken as one atomic step per callback: the      *)
(* callback's state updates, the render that follows and the effects of    *)
(* that render (use-agent.ts:44-62) form one action.  Within a callback    *)
(* the closures of the last render are used: syncSessionRef.current reads  *)
(* the currentSessionId of the state before the step, messagesRef.current  *)
(* is the transcript before the step.                                      *)
(***************************************************************************)
EXTENDS Integers, Sequences, FiniteSets, TLC

\* ------------------------------------------------------------------ bounds
MaxSends == 2
MaxFrames == 2
MaxClock == 1
MaxOptimistic == 1
MaxEvents == 3
MaxIndex == 1
MaxOps == 6
MaxValueLen == 4
QuotaLen == 2

\* --------------------------------------------------------------- constants
TEMPORARY_SESSION_ID == "sess_temp"
DEFAULT_SESSION_NAME == "New Chat"

Agents == {"a1", "a2"}
\* agent ids with a mounted AgentRunnerInstance in the stream specification
Mounted == {"a1"}
\* session ids the server may assign in x-buildship-agent-session-id
ServerSessionIds == {"sess_1"}
\* the session ids of the session-repository specification
RepositorySessionIds == {"sess_1", "sess_2"}
\* header absent: resp.headers.get(...) returns null
NoHeader == "null"
\* a field that the object does not have
Undefined == "undefined"
UndefinedTime == -1
Inputs == {"hello"}
Deltas == {"Hi ", "there"}
\* the execution id of request i ("Execution: one request/response streaming cycle")
ExecutionIdOf(i) == "exec_" \o ToString(i)
Statuses == {200, 404, 500}
\* the debug events of the trace specification
TraceExecIds == {"exec_1", "exec_2"}
ToolCallIds == {"call_1", "call_2"}
ToolIds == {"tool_1"}
Values == {"v1"}
ReasoningDeltas == {"a", "b"}
AgentNames == {"helper"}
\* the registry specification: the agent urls and the consumer components
AgentUrls == {"url_1", "url_2"}
Consumers == {"c1", "c2"}
\* the synced atom specification: the entries of a stored value, and whether the
\* atom was created with an overrideValue function
Entries == {"x", "y"}
Overrides == {"none", "keepNewest"}
AtomValues == UNION {[1..n -> Entries] : n \in 0..MaxValueLen}
\* the consumer that is mounted for an agent in the initial state
ConsumerOf(a) == IF a = "a1" THEN "c1" ELSE "c2"

VARIABLES
  allSessions,        \* buildshipAgentSessionAtom: agentId -> sessionId -> Session
  messages,           \* useState messages, per agent
  inProgress,         \* useState inProgress, per agent
  currentSessionId,   \* useState currentSessionId, per agent
  streams,            \* per agent, the fetchEventSource requests of its sends, in order
  clock,              \* Date.now()
  nFrames,            \* per agent, text frames delivered so far (bounds the model)
  nOptimistic,        \* per agent, optimistic messages added so far (bounds the model)
  debugData,          \* buildshipAgentDebugDataAtom: executionId -> trace
  lastReasoningIndex, \* the cursor of the debug handlers in use
  hist,               \* the debug events handled so far (history, for the properties)
  request,            \* per agent, what its latest request received (history)
  last,               \* the operation of the last step (history, for the properties)
  activeAgents,       \* activeAgentsRef.current: agentId -> agentUrl
  consumers,          \* the mounted components that call useAgentContext
  instances,          \* the mounted AgentRunnerInstance components
  runnerAtom,         \* agentRunnerAtomFamily: agentId -> the runner it publishes
  baseAtom,           \* atomWithSyncedStorage: the in-memory value
  storage,            \* atomWithSyncedStorage: the value held by the Storage
  writeResult,        \* the outcome of the last write of the synced atom
  nOps                \* operations so far (bounds the specification of two agents)

vars == <<allSessions, messages, inProgress, currentSessionId, streams, clock,
          nFrames, nOptimistic, debugData, lastReasoningIndex, hist, request, last,
          activeAgents, consumers, instances, runnerAtom, baseAtom, storage,
          writeResult, nOps>>

streamVars == <<allSessions, messages, inProgress, currentSessionId, streams, clock,
                nFrames, nOptimistic, request>>

traceVars == <<debugData, lastReasoningIndex, hist>>

registryVars == <<activeAgents, consumers, instances, runnerAtom>>

atomVars == <<baseAtom, storage, writeResult>>

otherVars == <<registryVars, atomVars, nOps>>

\* history of a request: the headers of its response, the text of its deltas since
\* the last user message, whether the user did anything else meanwhile (quiet) and
\* whether the transcript was empty when it began (fresh), whether a frame of it
\* was dropped (dropped), the sessions deleted while it was in flight and not
\* created again by its response (deleted)
NoRequest == [sessionHdr |-> NoHeader, executionHdr |-> NoHeader, text |-> "",
              quiet |-> TRUE, fresh |-> FALSE, dropped |-> FALSE, deleted |-> {}]

\* ----------------------------------------------------------------- helpers
Falsy(id) == id \in {"", Undefined}

IsTemporary(id) == Falsy(id) \/ id = TEMPORARY_SESSION_ID

Max(S) == CHOOSE x \in S : \A y \in S : y <= x

Front(s) == SubSeq(s, 1, Len(s) - 1)

LastMessage(msgs) == msgs[Len(msgs)]

\* allSessions[agentId] || {}
EmptyMap == [x \in {} |-> x]

AgentSessions(all, a) == IF a \in DOMAIN all THEN all[a] ELSE EmptyMap

HasSession(all, a, sid) == a \in DOMAIN all /\ sid \in DOMAIN all[a]

\* {...prev, [agentId]: slice}
WithSlice(all, a, slice) ==
  [b \in (DOMAIN all) \cup {a} |-> IF b = a THEN slice ELSE all[b]]

\* {...slice, [sid]: rec}
WithSession(slice, sid, rec) ==
  [s \in (DOMAIN slice) \cup {sid} |-> IF s = sid THEN rec ELSE slice[s]]

\* a sync without the guard on the temporary session
SyncWritesAlways(sid) == TRUE

\* syncSessionRef.current(updatedMessages) as closed over currentSessionId = sid
SyncWrites(sid) == ~IsTemporary(sid)

\* a sync that does not read the clock
TouchStale(old, msgs, now) == [old EXCEPT !.messages = msgs, !.updatedAt = 0]

\* {...old, messages: updatedMessages, updatedAt: Date.now()}
Touch(old, msgs, now) == [old EXCEPT !.messages = msgs, !.updatedAt = now]

\* a sync that stores {[currentSessionId]: {...}} without ...prev[agentId]
SyncSessionAlone(all, a, sid, msgs, now) ==
  IF ~SyncWrites(sid) THEN all
  ELSE LET slice == AgentSessions(all, a)
           old == IF sid \in DOMAIN slice
                  THEN slice[sid]
                  ELSE [id |-> Undefined, createdAt |-> UndefinedTime,
                        updatedAt |-> UndefinedTime, messages |-> << >>,
                        name |-> Undefined]
       IN WithSlice(all, a, WithSession(EmptyMap, sid, Touch(old, msgs, now)))

SyncSession(all, a, sid, msgs, now) ==
  IF ~SyncWrites(sid) THEN all
  ELSE LET slice == AgentSessions(all, a)
           old == IF sid \in DOMAIN slice
                  THEN slice[sid]
                  ELSE [id |-> Undefined, createdAt |-> UndefinedTime,
                        updatedAt |-> UndefinedTime, messages |-> << >>,
                        name |-> Undefined]
       IN WithSlice(all, a,
            WithSession(slice, sid, Touch(old, msgs, now)))

CreateSessionFromResponse(all, a, sid, name, msgs, now) ==
  WithSlice(all, a,
    WithSession(AgentSessions(all, a), sid,
      [id |-> sid, createdAt |-> now, updatedAt |-> now, messages |-> msgs,
       name |-> name]))

\* the records of a slice whose updatedAt is maximal: sort((a, b) => b.updatedAt - a.updatedAt)[0]
\* is one of them (which one, on a tie, depends on the insertion order of the keys)
MostRecentIds(slice, ids) ==
  {s \in ids : \A t \in ids : slice[t].updatedAt <= slice[s].updatedAt}

\* load-session effect: the transcript of the session, or [] when there is none
LoadSession(all, a, sid) ==
  IF HasSession(all, a, sid) THEN all[a][sid].messages ELSE << >>

\* -------------------------------------------------------- stream consumer
\* the render after a callback of agent a, and the load-session effect of every
\* mounted runner: it runs when currentSessionId, agentSessions or inProgress
\* changed, and reloads the transcript unless a send is in progress.  wrote: the
\* callback called setAllSessions (agent a's slice is then a new object; the slice
\* of another agent is a new object only when it has none: allSessions[b] || {})
AfterRender(a, msgs1, inProg1, sid1, all1, wrote) ==
  [b \in Agents |->
     IF b = a
     THEN IF ~inProg1 /\ (wrote \/ sid1 # currentSessionId[a] \/ inProg1 # inProgress[a])
          THEN LoadSession(all1, a, sid1)
          ELSE msgs1
     ELSE IF wrote /\ b \in DOMAIN activeAgents /\ b \notin DOMAIN all1 /\ ~inProgress[b]
          THEN << >>
          ELSE messages[b]]

LiveStatuses == {"connecting", "open"}

IsLive(st) == st.status \in LiveStatuses

\* the newest request of the agent is connecting or open
NewestLive(ss) == Len(ss) > 0 /\ IsLive(ss[Len(ss)])

\* a runAgent that does not abort the request of the controller
AbortControllerSkipped(ss) == ss

\* a fetchEventSource call that is not given the signal of the controller
SignalNone(n) == 0

\* signal: controller.current.signal, the signal of the controller of send n
Signal(n) == n

\* controller.current.abort(): the request that was given the signal of the
\* controller stops, its fetchEventSource promise resolves and none of its
\* callbacks runs again
AbortController(ss) ==
  IF Len(ss) > 0 /\ IsLive(ss[Len(ss)]) /\ ss[Len(ss)].signal = Len(ss)
  THEN [ss EXCEPT ![Len(ss)].status = "aborted", ![Len(ss)].result = "resolved"]
  ELSE ss

\* the userMessage object of handleSend number n
UserMessage(input, now, n) ==
  [role |-> "user", content |-> input, executionId |-> ToString(now), oid |-> n]

\* a handleSend that does not test skipUserMessage
AppendUserMessageAlways(msgs, userMessage, skip) == Append(msgs, userMessage)

\* if (!options?.skipUserMessage) setMessages(prev => [...prev, userMessage])
AppendUserMessage(msgs, userMessage, skip) ==
  IF skip THEN msgs ELSE Append(msgs, userMessage)

\* if (currentSessionId) headers["x-buildship-agent-session-id"] = currentSessionId
SessionIdHeader(sid) == IF Falsy(sid) THEN NoHeader ELSE sid

\* handleSend(input, {skipUserMessage: skip}) up to the first await of runAgent
HandleSend(a, input, skip) ==
  LET n == Len(streams[a]) + 1
      sid == currentSessionId[a]
      userMessage == UserMessage(input, clock, n)
      msgs1 == AppendUserMessage(messages[a], userMessage, skip)
      all1 == IF skip THEN allSessions ELSE SyncSession(allSessions, a, sid, msgs1, clock)
      wrote == ~skip /\ SyncWrites(sid)
  IN /\ Len(streams[a]) < MaxSends
     /\ allSessions' = all1
     /\ inProgress' = [inProgress EXCEPT ![a] = TRUE]
     /\ streams' = [streams EXCEPT ![a] =
          Append(AbortController(streams[a]),
                 [status |-> "connecting", skip |-> skip, sid0 |-> sid,
                  userMessage |-> userMessage, result |-> "pending",
                  signal |-> Signal(n), sessionIdHeader |-> SessionIdHeader(sid)])]
     /\ request' = [request EXCEPT ![a] = [NoRequest EXCEPT !.fresh = (messages[a] = << >>)]]
     /\ messages' = AfterRender(a, msgs1, TRUE, sid, all1, wrote)
     /\ last' = [op |-> "send", agent |-> a, stream |-> n, arg |-> ""]
     /\ UNCHANGED <<currentSessionId, clock, nFrames, nOptimistic>>

\* the error thrown by onopen for a status >= 400
OnOpenError(status) == IF status = 404 THEN "Not Found" ELSE "Error status"

\* onerror: whatever the error, it throws "Failed to execute agent"
OnError(e) == "Failed to execute agent"

\* prev.some((m) => m === userMessage): the very object handleSend created
HasUserMessage(msgs, userMessage) ==
  \E k \in 1..Len(msgs) : msgs[k].oid = userMessage.oid /\ userMessage.oid # 0

\* handleSend's catch: append the user message unless the transcript holds it
PreserveUserMessage(msgs, st) ==
  IF st.skip \/ HasUserMessage(msgs, st.userMessage)
  THEN msgs
  ELSE Append(msgs, st.userMessage)

\* an onerror and a catch of runAgent that do not synchronize
SyncOnErrorSkipped(all, a, sid, msgs, now) == all

\* onerror and the catch of runAgent: syncSessionRef.current(messagesRef.current)
SyncOnError(all, a, sid, msgs, now) == SyncSession(all, a, sid, msgs, now)

\* an error of request i (thrown by onopen, by fetch or by the stream): onerror,
\* then the catch of runAgent, then the catch of handleSend
FailSend(a, i, e) ==
  LET st == streams[a][i]
      sid == currentSessionId[a]
      all1 == SyncOnError(allSessions, a, sid, messages[a], clock)
      msgs1 == PreserveUserMessage(messages[a], st)
      all2 == IF st.skip THEN all1 ELSE SyncSession(all1, a, sid, msgs1, clock)
  IN /\ allSessions' = all2
     /\ inProgress' = [inProgress EXCEPT ![a] = FALSE]
     /\ streams' = [streams EXCEPT ![a][i].status = "failed", ![a][i].result = OnError(e)]
     /\ messages' = AfterRender(a, msgs1, FALSE, sid, all2, SyncWrites(sid))
     /\ UNCHANGED <<currentSessionId, clock, nFrames, nOptimistic, request>>

\* an onopen that tags the last message whatever its role
AttachExecutionIdToAny(msgs, executionId) ==
  IF Len(msgs) > 0
  THEN Append(Front(msgs), [LastMessage(msgs) EXCEPT !.executionId = executionId, !.oid = 0])
  ELSE msgs

\* onopen: the execution-id header goes to the last message when it is a user message
AttachExecutionId(msgs, executionId) ==
  IF Len(msgs) > 0 /\ LastMessage(msgs).role = "user"
  THEN Append(Front(msgs), [LastMessage(msgs) EXCEPT !.executionId = executionId, !.oid = 0])
  ELSE msgs

\* an onopen that takes the session of the response whatever session the send
\* began on
CreatesSessionAlways(sid0, sessionHdr) == sessionHdr # NoHeader

\* if (!currentSessionId || currentSessionId === TEMPORARY_SESSION_ID) and the
\* response has a session id
CreatesSession(sid0, sessionHdr) == IsTemporary(sid0) /\ sessionHdr # NoHeader

\* onopen of request i with a status < 400
OnOpenOk(a, i, sessionHdr, nameHdr, executionHdr) ==
  LET st == streams[a][i]
      sid == currentSessionId[a]
      create == CreatesSession(st.sid0, sessionHdr)
      sessionName == IF nameHdr # NoHeader THEN nameHdr ELSE DEFAULT_SESSION_NAME
      all1 == IF create
              THEN CreateSessionFromResponse(allSessions, a, sessionHdr, sessionName,
                                             messages[a], clock)
              ELSE allSessions
      sid1 == IF create THEN sessionHdr ELSE sid
      attach == executionHdr # NoHeader /\ Len(messages[a]) > 0
                /\ LastMessage(messages[a]).role = "user"
      msgs1 == IF executionHdr # NoHeader
               THEN AttachExecutionId(messages[a], executionHdr)
               ELSE messages[a]
      all2 == IF attach THEN SyncSession(all1, a, sid, msgs1, clock) ELSE all1
      wrote == create \/ (attach /\ SyncWrites(sid))
  IN /\ allSessions' = all2
     /\ currentSessionId' = [currentSessionId EXCEPT ![a] = sid1]
     /\ streams' = [streams EXCEPT ![a][i].status = "open"]
     /\ request' = [request EXCEPT ![a].sessionHdr = sessionHdr,
                                   ![a].executionHdr = executionHdr,
                                   ![a].deleted = IF create THEN @ \ {sessionHdr} ELSE @]
     /\ messages' = AfterRender(a, msgs1, inProgress[a], sid1, all2, wrote)
     /\ UNCHANGED <<inProgress, clock, nFrames, nOptimistic>>

OnOpen(a, i, status, sessionHdr, nameHdr, executionHdr) ==
  /\ i \in 1..Len(streams[a])
  /\ streams[a][i].status = "connecting"
  /\ IF status >= 400
     THEN FailSend(a, i, OnOpenError(status))
     ELSE OnOpenOk(a, i, sessionHdr, nameHdr, executionHdr)
  /\ last' = [op |-> IF status >= 400 THEN "rejected" ELSE "open", agent |-> a,
              stream |-> i, arg |-> IF status >= 400 THEN ToString(status) ELSE ""]

\* an onmessage that starts a new agent message for every delta
AppendTextDeltaAsNewMessage(msgs, data, executionId) ==
  Append(msgs, [role |-> "agent", content |-> data, executionId |-> executionId,
                oid |-> 0])

\* onmessage, llm_text_delta
AppendTextDelta(msgs, data, executionId) ==
  IF Len(msgs) > 0 /\ LastMessage(msgs).role = "agent"
  THEN Append(Front(msgs),
              [LastMessage(msgs) EXCEPT !.content = LastMessage(msgs).content \o data])
  ELSE Append(msgs, [role |-> "agent", content |-> data, executionId |-> executionId,
                     oid |-> 0])

OnTextDelta(a, i, data, executionId) ==
  LET sid == currentSessionId[a]
      msgs1 == AppendTextDelta(messages[a], data, executionId)
      all1 == SyncSession(allSessions, a, sid, msgs1, clock)
  IN /\ i \in 1..Len(streams[a])
     /\ streams[a][i].status = "open"
     /\ nFrames[a] < MaxFrames
     /\ nFrames' = [nFrames EXCEPT ![a] = @ + 1]
     /\ allSessions' = all1
     /\ messages' = AfterRender(a, msgs1, inProgress[a], sid, all1, SyncWrites(sid))
     /\ request' = [request EXCEPT ![a].text = @ \o data]
     /\ last' = [op |-> "delta", agent |-> a, stream |-> i, arg |-> ""]
     /\ UNCHANGED <<inProgress, currentSessionId, streams, clock, nOptimistic>>

\* an onclose that does not synchronize
SyncOnCloseSkipped(all, a, sid, msgs, now) == all

\* onclose: syncSessionRef.current()
SyncOnClose(all, a, sid, msgs, now) == SyncSession(all, a, sid, msgs, now)

OnClose(a, i) ==
  LET sid == currentSessionId[a]
      all1 == SyncOnClose(allSessions, a, sid, messages[a], clock)
  IN /\ i \in 1..Len(streams[a])
     /\ streams[a][i].status = "open"
     /\ allSessions' = all1
     /\ inProgress' = [inProgress EXCEPT ![a] = FALSE]
     /\ streams' = [streams EXCEPT ![a][i].status = "closed", ![a][i].result = "resolved"]
     /\ messages' = AfterRender(a, messages[a], FALSE, sid, all1, SyncWrites(sid))
     /\ last' = [op |-> "close", agent |-> a, stream |-> i, arg |-> ""]
     /\ UNCHANGED <<currentSessionId, clock, nFrames, nOptimistic, request>>

\* a transport error of request i, before or after its response opened
StreamError(a, i) ==
  /\ i \in 1..Len(streams[a])
  /\ IsLive(streams[a][i])
  /\ FailSend(a, i, "transport")
  /\ last' = [op |-> "error", agent |-> a, stream |-> i, arg |-> ""]

\* history: an operation of the user other than a send; the history of a request
\* that has ended is dropped
Disturbed(a) ==
  IF \E i \in 1..Len(streams[a]) : IsLive(streams[a][i])
  THEN [request EXCEPT ![a].quiet = FALSE]
  ELSE [request EXCEPT ![a] = NoRequest]

\* an addOptimisticMessage that puts the message in twice
AppendOptimisticTwice(msgs, userMessage) == Append(Append(msgs, userMessage), userMessage)

\* setMessages(prev => [...prev, userMessage])
AppendOptimistic(msgs, userMessage) == Append(msgs, userMessage)

\* addOptimisticMessage(input)
AddOptimisticMessage(a, input) ==
  LET sid == currentSessionId[a]
      msgs1 == AppendOptimistic(messages[a], UserMessage(input, clock, 0))
      all1 == SyncSession(allSessions, a, sid, msgs1, clock)
  IN /\ nOptimistic[a] < MaxOptimistic
     /\ nOptimistic' = [nOptimistic EXCEPT ![a] = @ + 1]
     /\ allSessions' = all1
     /\ messages' = AfterRender(a, msgs1, inProgress[a], sid, all1, SyncWrites(sid))
     /\ request' = [Disturbed(a) EXCEPT ![a].text = ""]
     /\ last' = [op |-> "optimistic", agent |-> a, stream |-> 0, arg |-> input]
     /\ UNCHANGED <<inProgress, currentSessionId, streams, clock, nFrames>>

\* ------------------------------------------------------ session utilities
\* getInitialSessionId: the ids it may return
GetInitialSessionId(all, a) ==
  LET slice == AgentSessions(all, a)
  IN IF DOMAIN slice # {}
     THEN {slice[k].id : k \in MostRecentIds(slice, DOMAIN slice)}
     ELSE {TEMPORARY_SESSION_ID}

\* the page is loaded again and the runner of agent a mounts: its state starts from
\* the useState defaults, the requests of the page before are gone, the session map
\* is what the Storage holds, and the mount effect selects getInitialSessionId()
MountRunner(a) ==
  \E sid1 \in GetInitialSessionId(allSessions, a) :
    /\ currentSessionId' = [currentSessionId EXCEPT ![a] = sid1]
    /\ inProgress' = [inProgress EXCEPT ![a] = FALSE]
    /\ messages' = [messages EXCEPT ![a] = LoadSession(allSessions, a, sid1)]
    /\ streams' = [streams EXCEPT ![a] =
         [k \in 1..Len(@) |-> IF IsLive(@[k])
                              THEN [@[k] EXCEPT !.status = "aborted", !.result = "resolved"]
                              ELSE @[k]]]
    /\ request' = [request EXCEPT ![a] = NoRequest]
    /\ last' = [op |-> "mount", agent |-> a, stream |-> 0, arg |-> sid1]
    /\ UNCHANGED <<allSessions, clock, nFrames, nOptimistic>>

\* the default of the parameter: sessionId = TEMPORARY_SESSION_ID when the argument
\* is omitted
SwitchTarget(sessionId) ==
  IF sessionId = Undefined THEN TEMPORARY_SESSION_ID ELSE sessionId

\* switchSession(sessionId = TEMPORARY_SESSION_ID)
SwitchSession(a, sessionId) ==
  /\ currentSessionId' = [currentSessionId EXCEPT ![a] = SwitchTarget(sessionId)]
  /\ messages' = AfterRender(a, messages[a], inProgress[a], SwitchTarget(sessionId),
                             allSessions, FALSE)
  /\ request' = Disturbed(a)
  /\ last' = [op |-> "switch", agent |-> a, stream |-> 0, arg |-> sessionId]
  /\ UNCHANGED <<allSessions, inProgress, streams, clock, nFrames, nOptimistic>>

\* delete updatedAgentSessions[sessionId]
RemoveSession(all, a, sessionId) ==
  LET slice == AgentSessions(all, a)
  IN WithSlice(all, a, [k \in (DOMAIN slice) \ {sessionId} |-> slice[k]])

\* deleteSession: the ids it may select when the deleted session is the current one
\* (remainingSessions filters the records by their id field)
Reselect(slice, sessionId) ==
  LET remaining == {k \in DOMAIN slice : slice[k].id # sessionId}
  IN IF remaining # {}
     THEN {slice[k].id : k \in MostRecentIds(slice, remaining)}
     ELSE {TEMPORARY_SESSION_ID}

\* a deleteSession that returns early on a falsy id only
DeleteIgnoresFalsy(sessionId) == Falsy(sessionId)

\* if (!sessionId || sessionId === TEMPORARY_SESSION_ID) return
DeleteIgnores(sessionId) == IsTemporary(sessionId)

DeleteSession(a, sessionId) ==
  /\ last' = [op |-> "delete", agent |-> a, stream |-> 0, arg |-> sessionId]
  /\ IF DeleteIgnores(sessionId)
     THEN UNCHANGED streamVars
     ELSE LET all1 == RemoveSession(allSessions, a, sessionId)
          IN /\ allSessions' = all1
             /\ \E sid1 \in (IF sessionId = currentSessionId[a]
                             THEN Reselect(AgentSessions(allSessions, a), sessionId)
                             ELSE {currentSessionId[a]}) :
                  /\ currentSessionId' = [currentSessionId EXCEPT ![a] = sid1]
                  /\ messages' = AfterRender(a, messages[a], inProgress[a], sid1, all1, TRUE)
             /\ request' = [Disturbed(a) EXCEPT ![a].deleted =
                               IF NewestLive(streams[a]) THEN @ \cup {sessionId} ELSE @]
             /\ UNCHANGED <<inProgress, streams, clock, nFrames, nOptimistic>>

\* Date.now() advances
Tick ==
  /\ clock < MaxClock
  /\ clock' = clock + 1
  /\ last' = [op |-> "tick", agent |-> "none", stream |-> 0, arg |-> ""]
  /\ UNCHANGED <<allSessions, messages, inProgress, currentSessionId, streams,
                 nFrames, nOptimistic, request>>

\* ------------------------------------------------------ agent registry
\* activeAgentsRef.current.set(agentId, agentUrl)
WithAgent(agents, a, url) ==
  [b \in (DOMAIN agents) \cup {a} |-> IF b = a THEN url ELSE agents[b]]

\* an instance list keyed by the url of the agent
InstanceKeyByUrl(a, url) == url

\* <AgentRunnerInstance key={agentId} ... />
InstanceKey(a, url) == a

FreshId(insts) == Max({r.id : r \in insts} \cup {0}) + 1

\* the render of AgentContextProvider: React keeps the component whose key is still
\* in the list (with its state, its refs and its request), mounts a component for a
\* new key and unmounts the component whose key is gone
Reconcile(insts, agents) ==
  {LET key == InstanceKey(a, agents[a])
   IN IF \E r \in insts : r.key = key
      THEN [(CHOOSE r \in insts : r.key = key) EXCEPT !.agentId = a,
                                                      !.agentUrl = agents[a]]
      ELSE [key |-> key, agentId |-> a, agentUrl |-> agents[a], id |-> FreshId(insts)] :
   a \in DOMAIN agents}

\* useEffect(() => setAgentRunner(agent)) of every instance; an atom no instance
\* writes keeps its value
PublishRunners(atoms, insts) ==
  [a \in Agents |->
     IF \E r \in insts : r.agentId = a
     THEN (CHOOSE r \in insts : r.agentId = a).id
     ELSE atoms[a]]

\* initializeAgent(agentId, agentUrl), the render it forces and the effects of the
\* render
InitializeAgent(a, url) ==
  LET agents1 == WithAgent(activeAgents, a, url)
      insts1 == Reconcile(instances, agents1)
  IN /\ activeAgents' = agents1
     /\ instances' = insts1
     /\ runnerAtom' = PublishRunners(runnerAtom, insts1)

\* a component that calls useAgentContext(agentId, agentUrl) mounts: its effect
\* calls initializeAgent
MountConsumer(c, a, url) ==
  /\ c \notin DOMAIN consumers
  /\ consumers' = [d \in (DOMAIN consumers) \cup {c} |->
                     IF d = c THEN [agentId |-> a, agentUrl |-> url] ELSE consumers[d]]
  /\ InitializeAgent(a, url)
  /\ last' = [op |-> "mount", agent |-> a, stream |-> 0, arg |-> url]
  /\ UNCHANGED <<streamVars, traceVars, atomVars, nOps>>

\* the component renders with other arguments: the effect runs again
RerenderConsumer(c, a, url) ==
  /\ c \in DOMAIN consumers
  /\ consumers' = [consumers EXCEPT ![c] = [agentId |-> a, agentUrl |-> url]]
  /\ InitializeAgent(a, url)
  /\ last' = [op |-> "initialize", agent |-> a, stream |-> 0, arg |-> url]
  /\ UNCHANGED <<streamVars, traceVars, atomVars, nOps>>

\* the component unmounts: the effect has no cleanup
UnmountConsumer(c) ==
  /\ c \in DOMAIN consumers
  /\ consumers' = [d \in (DOMAIN consumers) \ {c} |-> consumers[d]]
  /\ last' = [op |-> "unmount", agent |-> consumers[c].agentId, stream |-> 0, arg |-> ""]
  /\ UNCHANGED <<activeAgents, instances, runnerAtom, streamVars, traceVars, atomVars,
                 nOps>>

\* const [runner] = useAtom(agentRunnerAtomFamily(agentId)): what consumer c reads
\* (0: the atom is null and the consumer gets the placeholder)
Snapshot(c) == runnerAtom[consumers[c].agentId]

\* ------------------------------------------------------ synced atom
\* initialValue of the atoms of this program: {}
InitialValue == << >>

\* the Storage holds no item under the key of the atom, or one item
NoItem == << >>

\* storage.getItem(key, initialValue)
GetItem(st) == IF st = NoItem THEN InitialValue ELSE st[1]

\* storage.setItem(key, value) throws when the value exceeds what the Storage can
\* still take
SetItemThrows(value) == Len(value) > QuotaLen

\* an overrideValue function: it keeps the newest entry of the value
OverrideValue(override, value) ==
  IF override = "keepNewest" /\ Len(value) > 0 THEN <<value[Len(value)]>> ELSE value

\* overrideValue?.(get, set, nextValue) || nextValue
OverriddenValue(override, value) ==
  IF override = "none" THEN value ELSE OverrideValue(override, value)

\* the catch: storage.setItem(key, overridenValue), outside any try
RetryThrows(value) == SetItemThrows(value)

\* a write that does not set the base atom
InMemoryKept(prev, nextValue) == prev

\* set(baseAtom, nextValue)
InMemory(prev, nextValue) == nextValue

\* the write of derivedAtom with a value or an updater that yields nextValue
WriteAtom(nextValue, override) ==
  LET rejected == SetItemThrows(nextValue)
      overridden == OverriddenValue(override, nextValue)
      threw == rejected /\ RetryThrows(overridden)
  IN /\ baseAtom' = InMemory(baseAtom, nextValue)
     /\ storage' = IF ~rejected THEN <<nextValue>>
                   ELSE IF ~SetItemThrows(overridden) THEN <<overridden>>
                   ELSE storage
     /\ writeResult' = IF threw THEN "threw" ELSE IF rejected THEN "retried" ELSE "stored"
     /\ last' = [op |-> "write", agent |-> "none", stream |-> 0, arg |-> override]
     /\ UNCHANGED <<streamVars, traceVars, registryVars, nOps>>

\* set(atom, prev => [...prev, entry])
AppendEntry(entry, override) ==
  /\ Len(baseAtom) < MaxValueLen
  /\ WriteAtom(Append(baseAtom, entry), override)

\* set(atom, value)
SetValue(value, override) ==
  /\ value \in AtomValues
  /\ WriteAtom(value, override)

\* set(atom, RESET)
ResetAtom ==
  /\ baseAtom' = InitialValue
  /\ storage' = NoItem
  /\ writeResult' = "removed"
  /\ last' = [op |-> "reset", agent |-> "none", stream |-> 0, arg |-> ""]
  /\ UNCHANGED <<streamVars, traceVars, registryVars, nOps>>

\* ------------------------------------------------------ debug trace reducer
\* prev[executionId] || []
TraceOf(dd, executionId) == IF executionId \in DOMAIN dd THEN dd[executionId] ELSE << >>

\* {...prev, [executionId]: currentData}
WithTrace(dd, executionId, trace) ==
  [e \in (DOMAIN dd) \cup {executionId} |-> IF e = executionId THEN trace ELSE dd[e]]

IsToolItem(item, toolCallId) ==
  item.itemType = "tool_call" /\ item.toolCallId = toolCallId

\* a scan from the start of the trace: the first tool item of the toolCallId, or 0
FirstToolItem(trace, toolCallId) ==
  LET hits == {i \in 1..Len(trace) : IsToolItem(trace[i], toolCallId)}
  IN IF hits = {} THEN 0 ELSE CHOOSE i \in hits : \A j \in hits : i <= j

\* for (let i = currentData.length - 1; i >= 0; i--): the last tool item of the
\* toolCallId, or 0 when there is none
LastToolItem(trace, toolCallId) ==
  LET hits == {i \in 1..Len(trace) : IsToolItem(trace[i], toolCallId)}
  IN IF hits = {} THEN 0 ELSE Max(hits)

\* the last reasoning item of the trace, or 0
LastReasoningItem(trace) ==
  LET hits == {i \in 1..Len(trace) : trace[i].itemType = "reasoning"}
  IN IF hits = {} THEN 0 ELSE Max(hits)

HandleDebugToolExecutionStarted(dd, ev) ==
  WithTrace(dd, ev.executionId,
    Append(TraceOf(dd, ev.executionId),
           [itemType |-> "tool_call",
            toolId |-> IF ev.toolId = Undefined THEN "unknown" ELSE ev.toolId,
            toolCallId |-> ev.toolCallId, status |-> "progress",
            inputs |-> Undefined, output |-> Undefined, logs |-> << >>]))

HandleDebugToolExecutionInputs(dd, ev) ==
  LET trace == TraceOf(dd, ev.executionId)
      i == LastToolItem(trace, ev.toolCallId)
  IN WithTrace(dd, ev.executionId,
       IF i = 0 THEN trace ELSE [trace EXCEPT ![i].inputs = ev.value])

HandleDebugToolExecutionFinished(dd, ev) ==
  LET trace == TraceOf(dd, ev.executionId)
      i == LastToolItem(trace, ev.toolCallId)
  IN WithTrace(dd, ev.executionId,
       IF i = 0 THEN trace
       ELSE [trace EXCEPT ![i].status = "complete", ![i].output = ev.value])

HandleDebugToolExecutionError(dd, ev) ==
  LET trace == TraceOf(dd, ev.executionId)
      i == LastToolItem(trace, ev.toolCallId)
  IN WithTrace(dd, ev.executionId,
       IF i = 0 THEN trace
       ELSE [trace EXCEPT ![i].status = "error", ![i].output = ev.value])

HandleDebugToolLog(dd, ev) ==
  LET trace == TraceOf(dd, ev.executionId)
      i == LastToolItem(trace, ev.toolCallId)
  IN WithTrace(dd, ev.executionId,
       IF i = 0 THEN trace ELSE [trace EXCEPT ![i].logs = Append(@, ev.value)])

\* a test that lets a delta of the index already seen start an item
StartsReasoningItemOnEqual(cursor, index) == cursor <= index

\* if (lastReasoningIndex < index): the delta starts a new item
StartsReasoningItem(cursor, index) == cursor < index

HandleDebugReasoningStep(dd, cursor, ev) ==
  LET trace == TraceOf(dd, ev.executionId)
      pushed == IF StartsReasoningItem(cursor, ev.index)
                THEN Append(trace, [itemType |-> "reasoning", reasoning |-> ""])
                ELSE trace
      i == LastReasoningItem(pushed)
  IN WithTrace(dd, ev.executionId,
       IF i = 0 THEN pushed
       ELSE [pushed EXCEPT ![i].reasoning = @ \o ev.delta])

ReasoningCursor(cursor, ev) ==
  IF StartsReasoningItem(cursor, ev.index) THEN ev.index ELSE cursor

\* a handoff handler that puts the item at the start of the trace
HandleAgentHandoffFirst(dd, ev) ==
  WithTrace(dd, ev.executionId,
    <<[itemType |-> "handoff", agentName |-> ev.agentName]>>
      \o TraceOf(dd, ev.executionId))

HandleAgentHandoff(dd, ev) ==
  WithTrace(dd, ev.executionId,
    Append(TraceOf(dd, ev.executionId),
           [itemType |-> "handoff", agentName |-> ev.agentName]))

\* handleDebugEvent: the switch on parsed.type
DebugDataAfter(dd, cursor, ev) ==
  CASE ev.type = "debug_tool_execution_started" -> HandleDebugToolExecutionStarted(dd, ev)
    [] ev.type = "debug_tool_execution_inputs" -> HandleDebugToolExecutionInputs(dd, ev)
    [] ev.type = "debug_tool_execution_finished" -> HandleDebugToolExecutionFinished(dd, ev)
    [] ev.type = "debug_tool_execution_error" -> HandleDebugToolExecutionError(dd, ev)
    [] ev.type = "debug_tool_log" -> HandleDebugToolLog(dd, ev)
    [] ev.type = "llm_reasoning_delta" -> HandleDebugReasoningStep(dd, cursor, ev)
    [] ev.type = "agent_handoff" -> HandleAgentHandoff(dd, ev)
    [] OTHER -> dd

CursorAfter(cursor, ev) ==
  IF ev.type = "llm_reasoning_delta" THEN ReasoningCursor(cursor, ev) ELSE cursor

\* the frames routed to the reducer; a field a type does not carry is Undefined (0
\* for the index)
Event(type, executionId, toolId, toolCallId, value, delta, index, agentName) ==
  [type |-> type, executionId |-> executionId, toolId |-> toolId,
   toolCallId |-> toolCallId, value |-> value, delta |-> delta, index |-> index,
   agentName |-> agentName]

ToolEventTypes == {"debug_tool_execution_inputs", "debug_tool_execution_finished",
                   "debug_tool_execution_error", "debug_tool_log"}

DebugEvents ==
  {Event("debug_tool_execution_started", e, t, c, Undefined, Undefined, 0, Undefined) :
     e \in TraceExecIds, t \in ToolIds, c \in ToolCallIds}
  \cup UNION {{Event(ty, e, Undefined, c, v, Undefined, 0, Undefined) :
                 e \in TraceExecIds, c \in ToolCallIds, v \in Values} :
              ty \in ToolEventTypes}
  \cup UNION {{Event("llm_reasoning_delta", e, Undefined, Undefined, Undefined, d, i, Undefined) :
                 e \in TraceExecIds, d \in ReasoningDeltas} : i \in 0..MaxIndex}
  \cup {Event("agent_handoff", e, Undefined, Undefined, Undefined, Undefined, 0, n) :
          e \in TraceExecIds, n \in AgentNames}

\* debugHandlers.handleDebugEvent(parsed)
HandleDebugEvent(ev) ==
  /\ Len(hist) < MaxEvents
  /\ debugData' = DebugDataAfter(debugData, lastReasoningIndex, ev)
  /\ lastReasoningIndex' = CursorAfter(lastReasoningIndex, ev)
  /\ hist' = Append(hist, ev)
  /\ UNCHANGED <<streamVars, last, otherVars>>

\* createDebugHandlers(setDebugData): a render creates handlers with a new cursor,
\* and the next send uses them
CreateDebugHandlers ==
  /\ Len(hist) < MaxEvents
  /\ lastReasoningIndex # -1
  /\ lastReasoningIndex' = -1
  /\ hist' = Append(hist, Event("handlers", Undefined, Undefined, Undefined, Undefined,
                                Undefined, 0, Undefined))
  /\ UNCHANGED <<debugData, streamVars, last, otherVars>>

\* the frames onmessage does not apply: a payload that is not JSON, JSON without a
\* type, a type no branch handles, a debug_ type handleDebugEvent does not know
DroppedFrames ==
  {[payload |-> "malformed", type |-> Undefined],
   [payload |-> "json", type |-> Undefined],
   [payload |-> "json", type |-> "unknown_type"],
   [payload |-> "json", type |-> "debug_unknown"]}

\* an onmessage without try/catch: JSON.parse and parsed.type.startsWith throw
OnMessageThrowsUncaught(frame) ==
  frame.payload = "malformed" \/ frame.type = Undefined

\* try { ... } catch (e) { console.log("Failed to parse agent message", e) }
OnMessageThrows(frame) == FALSE

\* the types routed to debugHandlers.handleDebugEvent
RoutedToDebug(type) ==
  type \in {"debug_tool_execution_started", "debug_tool_execution_inputs",
            "debug_tool_execution_finished", "debug_tool_execution_error",
            "debug_tool_log", "debug_unknown", "llm_reasoning_delta", "agent_handoff"}

\* onmessage of request i with a frame of DroppedFrames
OnDroppedFrame(a, i, frame) ==
  /\ i \in 1..Len(streams[a])
  /\ streams[a][i].status = "open"
  /\ nFrames[a] < MaxFrames
  /\ last' = [op |-> "dropped", agent |-> a, stream |-> i, arg |-> ""]
  /\ IF OnMessageThrows(frame)
     THEN FailSend(a, i, "parse") /\ UNCHANGED traceVars
     ELSE /\ nFrames' = [nFrames EXCEPT ![a] = @ + 1]
          /\ request' = [request EXCEPT ![a].dropped = TRUE]
          /\ debugData' = IF frame.type # Undefined /\ RoutedToDebug(frame.type)
                          THEN DebugDataAfter(debugData, lastReasoningIndex,
                                              [type |-> frame.type])
                          ELSE debugData
          /\ UNCHANGED <<allSessions, messages, inProgress, currentSessionId, streams,
                         clock, nOptimistic, lastReasoningIndex, hist>>

\* an onmessage that takes every delta frame for text
TranscriptAfterAnyDelta(msgs, type, data, executionId) ==
  IF type \in {"llm_text_delta", "llm_reasoning_delta"}
  THEN AppendTextDelta(msgs, data, executionId)
  ELSE msgs

\* if (parsed.type === "llm_text_delta") setMessages(...) else if (...) the debug
\* handlers: the transcript after a frame of the type
TranscriptAfterFrame(msgs, type, data, executionId) ==
  IF type = "llm_text_delta" THEN AppendTextDelta(msgs, data, executionId) ELSE msgs

\* onmessage of request i with a debug_, llm_reasoning_delta or agent_handoff frame
OnDebugFrame(a, i, ev) ==
  /\ i \in 1..Len(streams[a])
  /\ streams[a][i].status = "open"
  /\ nFrames[a] < MaxFrames
  /\ Len(hist) < MaxEvents
  /\ nFrames' = [nFrames EXCEPT ![a] = @ + 1]
  /\ debugData' = DebugDataAfter(debugData, lastReasoningIndex, ev)
  /\ lastReasoningIndex' = CursorAfter(lastReasoningIndex, ev)
  /\ hist' = Append(hist, ev)
  /\ messages' = [messages EXCEPT ![a] =
                    TranscriptAfterFrame(@, ev.type, ev.delta, ev.executionId)]
  /\ last' = [op |-> "debug", agent |-> a, stream |-> i, arg |-> ev.type]
  /\ UNCHANGED <<allSessions, inProgress, currentSessionId, streams, clock,
                 nOptimistic, request>>

\* the debug frames of the stream specification
StreamEvents(executionId) ==
  {ev \in DebugEvents :
     /\ ev.executionId = executionId
     /\ ev.type \in {"debug_tool_execution_started", "debug_tool_execution_finished",
                     "llm_reasoning_delta", "agent_handoff"}
     /\ ev.toolCallId \in {Undefined, "call_1"}
     /\ ev.delta \in {Undefined, "a"}
     /\ ev.index = 0}

\* handleSend as called from the latest render: runAgent closes over the debug
\* handlers of that render, whose cursor no stream has moved
HandleSendLatest(a, input, skip) ==
  /\ HandleSend(a, input, skip)
  /\ lastReasoningIndex' = -1
  /\ UNCHANGED <<debugData, hist>>

\* ------------------------------------------------------ specification
\* no runner has done anything yet
InitRunners ==
  /\ allSessions = EmptyMap
  /\ messages = [a \in Agents |-> << >>]
  /\ inProgress = [a \in Agents |-> FALSE]
  /\ currentSessionId = [a \in Agents |-> TEMPORARY_SESSION_ID]
  /\ streams = [a \in Agents |-> << >>]
  /\ clock = 0
  /\ nFrames = [a \in Agents |-> 0]
  /\ nOptimistic = [a \in Agents |-> 0]
  /\ debugData = EmptyMap
  /\ lastReasoningIndex = -1
  /\ hist = << >>
  /\ request = [a \in Agents |-> NoRequest]
  /\ last = [op |-> "init", agent |-> "none", stream |-> 0, arg |-> ""]
  /\ storage = NoItem
  /\ baseAtom = GetItem(storage)
  /\ writeResult = "none"
  /\ nOps = 0

\* one consumer is mounted for each agent of the set and has registered it
InitRegistry(agents) ==
  /\ activeAgents = [a \in agents |-> "url_1"]
  /\ consumers = [c \in {d \in Consumers : \E a \in agents : d = ConsumerOf(a)} |->
                    [agentId |-> CHOOSE a \in agents : c = ConsumerOf(a),
                     agentUrl |-> "url_1"]]
  /\ instances = Reconcile({}, [a \in agents |-> "url_1"])
  /\ runnerAtom = PublishRunners([a \in Agents |-> 0],
                                 Reconcile({}, [a \in agents |-> "url_1"]))

Init == InitRunners /\ InitRegistry(Mounted)

Headers(S) == S \cup {NoHeader}

Next ==
  \/ \E a \in Mounted, input \in Inputs, skip \in BOOLEAN :
       HandleSend(a, input, skip) /\ UNCHANGED <<traceVars, otherVars>>
  \/ \E a \in Mounted, i \in 1..MaxSends, status \in Statuses,
        sessionHdr \in Headers(ServerSessionIds), nameHdr \in {NoHeader},
        withExecutionId \in BOOLEAN :
       LET executionHdr == IF withExecutionId THEN ExecutionIdOf(i) ELSE NoHeader IN
       OnOpen(a, i, status, sessionHdr, nameHdr, executionHdr) /\ UNCHANGED <<traceVars, otherVars>>
  \/ \E a \in Mounted, i \in 1..MaxSends, data \in Deltas :
       OnTextDelta(a, i, data, ExecutionIdOf(i)) /\ UNCHANGED <<traceVars, otherVars>>
  \/ \E a \in Mounted, i \in 1..MaxSends : OnClose(a, i) /\ UNCHANGED <<traceVars, otherVars>>
  \/ \E a \in Mounted, i \in 1..MaxSends : StreamError(a, i) /\ UNCHANGED <<traceVars, otherVars>>
  \/ \E a \in Mounted, sessionId \in ServerSessionIds \cup {TEMPORARY_SESSION_ID} :
       SwitchSession(a, sessionId) /\ UNCHANGED <<traceVars, otherVars>>
  \/ \E a \in Mounted, sessionId \in ServerSessionIds \cup {TEMPORARY_SESSION_ID, ""} :
       DeleteSession(a, sessionId) /\ UNCHANGED <<traceVars, otherVars>>

Spec == Init /\ [][Next]_vars

\* the runners of two agents side by side
InitAgents == InitRunners /\ InitRegistry(Agents)

RECURSIVE SumOver(_, _)
SumOver(f, S) ==
  IF S = {} THEN 0
  ELSE LET x == CHOOSE y \in S : TRUE IN f[x] + SumOver(f, S \ {x})

TotalSends == SumOver([a \in Agents |-> Len(streams[a])], Agents)

\* an operation of a specification with a budget of operations: it counts against
\* the budget and leaves the trace map, the registry and the synced atom alone
Budgeted(A) ==
  /\ nOps < MaxOps
  /\ nOps' = nOps + 1
  /\ A
  /\ UNCHANGED <<traceVars, registryVars, atomVars>>

NextAgents ==
  \/ \E a \in Agents, input \in Inputs, skip \in BOOLEAN :
       TotalSends < MaxSends /\ Budgeted(HandleSend(a, input, skip))
  \/ \E a \in Agents, i \in 1..MaxSends, status \in Statuses,
        sessionHdr \in Headers(ServerSessionIds), nameHdr \in {NoHeader},
        withExecutionId \in BOOLEAN :
       LET executionHdr == IF withExecutionId THEN ExecutionIdOf(i) ELSE NoHeader IN
       Budgeted(OnOpen(a, i, status, sessionHdr, nameHdr, executionHdr))
  \/ \E a \in Agents, i \in 1..MaxSends, data \in Deltas :
       SumOver(nFrames, Agents) < MaxFrames
       /\ Budgeted(OnTextDelta(a, i, data, ExecutionIdOf(i)))
  \/ \E a \in Agents, i \in 1..MaxSends : Budgeted(OnClose(a, i))
  \/ \E a \in Agents, i \in 1..MaxSends : Budgeted(StreamError(a, i))
  \/ \E a \in Agents, sessionId \in ServerSessionIds \cup {TEMPORARY_SESSION_ID} :
       Budgeted(SwitchSession(a, sessionId))
  \/ \E a \in Agents, sessionId \in ServerSessionIds :
       Budgeted(DeleteSession(a, sessionId))
  \/ \E a \in Agents, input \in Inputs :
       SumOver(nOptimistic, Agents) < MaxOptimistic
       /\ Budgeted(AddOptimisticMessage(a, input))

SpecAgents == InitAgents /\ [][NextAgents]_vars

\* one runner and the frames of its streams
NextStream ==
  \/ \E a \in Mounted, input \in Inputs, skip \in BOOLEAN :
       HandleSendLatest(a, input, skip) /\ UNCHANGED otherVars
  \/ \E a \in Mounted, i \in 1..MaxSends, status \in Statuses,
        sessionHdr \in Headers(ServerSessionIds), withExecutionId \in BOOLEAN :
       LET executionHdr == IF withExecutionId THEN ExecutionIdOf(i) ELSE NoHeader IN
       OnOpen(a, i, status, sessionHdr, NoHeader, executionHdr)
       /\ UNCHANGED <<traceVars, otherVars>>
  \/ \E a \in Mounted, i \in 1..MaxSends, data \in Deltas :
       OnTextDelta(a, i, data, ExecutionIdOf(i)) /\ UNCHANGED <<traceVars, otherVars>>
  \/ \E a \in Mounted, i \in 1..MaxSends : \E ev \in StreamEvents(ExecutionIdOf(i)) :
       OnDebugFrame(a, i, ev) /\ UNCHANGED otherVars
  \/ \E a \in Mounted, i \in 1..MaxSends, frame \in DroppedFrames :
       OnDroppedFrame(a, i, frame) /\ UNCHANGED otherVars
  \/ \E a \in Mounted, i \in 1..MaxSends : OnClose(a, i) /\ UNCHANGED <<traceVars, otherVars>>
  \/ \E a \in Mounted, i \in 1..MaxSends :
       StreamError(a, i) /\ UNCHANGED <<traceVars, otherVars>>

SpecStream == Init /\ [][NextStream]_vars

\* the registry: consumers mount, render again and unmount while the runners of
\* the registered agents send and receive
InitEmptyRegistry == InitRunners /\ InitRegistry({})

NextRegistry ==
  \/ \E c \in Consumers, a \in Agents, url \in AgentUrls : MountConsumer(c, a, url)
  \/ \E c \in Consumers, a \in Agents, url \in AgentUrls : RerenderConsumer(c, a, url)
  \/ \E c \in Consumers : UnmountConsumer(c)
  \/ \E a \in Agents, input \in Inputs :
       /\ \E c \in DOMAIN consumers : consumers[c].agentId = a /\ Snapshot(c) # 0
       /\ HandleSend(a, input, FALSE)
       /\ UNCHANGED <<traceVars, otherVars>>
  \/ \E a \in Agents, i \in 1..MaxSends :
       OnOpen(a, i, 200, NoHeader, NoHeader, NoHeader)
       /\ UNCHANGED <<traceVars, otherVars>>
  \/ \E a \in Agents, i \in 1..MaxSends : OnClose(a, i) /\ UNCHANGED <<traceVars, otherVars>>

SpecRegistry == InitEmptyRegistry /\ [][NextRegistry]_vars

\* one runner and its session repository, with a clock that advances
NextSessions ==
  \/ Budgeted(Tick)
  \/ \E a \in Mounted, input \in Inputs, skip \in BOOLEAN :
       Budgeted(HandleSend(a, input, skip))
  \/ \E a \in Mounted, i \in 1..MaxSends, sessionHdr \in Headers(RepositorySessionIds),
        withExecutionId \in BOOLEAN :
       LET executionHdr == IF withExecutionId THEN ExecutionIdOf(i) ELSE NoHeader IN
       Budgeted(OnOpen(a, i, 200, sessionHdr, NoHeader, executionHdr))
  \/ \E a \in Mounted, i \in 1..MaxSends :
       Budgeted(OnTextDelta(a, i, "Hi ", ExecutionIdOf(i)))
  \/ \E a \in Mounted, i \in 1..MaxSends : Budgeted(OnClose(a, i))
  \/ \E a \in Mounted, i \in 1..MaxSends : Budgeted(StreamError(a, i))
  \/ \E a \in Mounted, sessionId \in RepositorySessionIds \cup {Undefined} :
       Budgeted(SwitchSession(a, sessionId))
  \/ \E a \in Mounted, sessionId \in RepositorySessionIds :
       Budgeted(DeleteSession(a, sessionId))
  \/ \E a \in Mounted, input \in Inputs : Budgeted(AddOptimisticMessage(a, input))
  \/ \E a \in Mounted : Budgeted(MountRunner(a))

SpecSessions == Init /\ [][NextSessions]_vars

\* the writes of one synced atom
NextAtom ==
  \/ \E entry \in Entries, override \in Overrides : AppendEntry(entry, override)
  \/ \E value \in AtomValues, override \in Overrides : SetValue(value, override)
  \/ ResetAtom

SpecAtom == Init /\ [][NextAtom]_vars

NextTrace ==
  \/ \E ev \in DebugEvents : HandleDebugEvent(ev)
  \/ CreateDebugHandlers

SpecTrace == Init /\ [][NextTrace]_vars

\* ------------------------------------------------------------ properties
LiveStreams(a) == {i \in 1..Len(streams[a]) : IsLive(streams[a][i])}

\* C1: for every agent id, at most one request is in flight in every reachable
\* state: a send aborts the open request of the agent before it opens the new one.
C1_OneStreamInFlight ==
  \A a \in Agents : Cardinality(LiveStreams(a)) <= 1

\* a second send found the first request live and aborted it
C1_Witness ==
  \E a \in Agents :
    /\ Len(streams[a]) = 2
    /\ streams[a][1].status = "aborted"
    /\ IsLive(streams[a][2])

\* the user messages of send i in a transcript: the object handleSend created,
\* or its copy carrying the execution id of the response
UserMessagesOf(msgs, i) ==
  {k \in 1..Len(msgs) :
     /\ msgs[k].role = "user"
     /\ msgs[k].oid = i \/ msgs[k].executionId = ExecutionIdOf(i)}

UserCount(msgs) == Cardinality({k \in 1..Len(msgs) : msgs[k].role = "user"})

\* the last step ended request i of agent a (close, error, rejection at open)
Ended(a, i) ==
  /\ last.agent = a
  /\ last.stream = i
  /\ last.op \in {"close", "error", "rejected"}

Failed(a, i) ==
  /\ last.agent = a
  /\ last.stream = i
  /\ last.op \in {"error", "rejected"}

\* C2: a send without skipUserMessage never leaves two user messages of that send
\* in the transcript, whatever its outcome (close, rejection at open, error after
\* the execution id of the response was attached to the user message).
C2_NeverTwoUserMessages ==
  \A a \in Agents : \A i \in 1..Len(streams[a]) :
    (Ended(a, i) /\ ~streams[a][i].skip)
      => Cardinality(UserMessagesOf(messages[a], i)) <= 1

\* C3: after a send without skipUserMessage failed, the transcript holds the user
\* message of that send, whatever the current session is.
C3_UserMessageKept ==
  \A a \in Agents : \A i \in 1..Len(streams[a]) :
    (Failed(a, i) /\ ~streams[a][i].skip)
      => UserMessagesOf(messages[a], i) # {}

\* C4: no step of a send with skipUserMessage (the send, its open, its frames, its
\* close, its failure) adds a user message to the transcript.
C4_SkipAddsNoUserMessage ==
  [][\A a \in Agents :
       (/\ last'.agent = a
        /\ last'.op \in {"send", "open", "rejected", "delta", "close", "error"}
        /\ streams'[a][last'.stream].skip)
         => UserCount(messages'[a]) <= UserCount(messages[a])]_vars

\* a send with skipUserMessage failed and the transcript, which is not empty, holds
\* no user message
C4_Witness ==
  \E a \in Agents :
    /\ last.agent = a
    /\ last.op \in {"error", "rejected"}
    /\ streams[a][last.stream].skip
    /\ messages[a] # << >>
    /\ UserCount(messages[a]) = 0

\* C5: after each text delta of a request, whose frames share one execution id, the
\* transcript ends with one agent message whose content is the concatenation, in
\* arrival order, of the deltas received since the last user message.
C5_DeltasConcatenated ==
  \A a \in Agents :
    (last.agent = a /\ last.op = "delta")
      => /\ messages[a] # << >>
         /\ LastMessage(messages[a]).role = "agent"
         /\ LastMessage(messages[a]).content = request[a].text

IsExchange(msgs, input, executionId, text) ==
  /\ Len(msgs) = 2
  /\ msgs[1].role = "user"
  /\ msgs[1].content = input
  /\ msgs[1].executionId = executionId
  /\ msgs[2].role = "agent"
  /\ msgs[2].content = text

\* request i of agent a began on the temporary session with an empty transcript,
\* its response carried a session id and an execution id, text deltas followed,
\* it has just closed and the user did nothing else meanwhile
C6_Scenario(a, i) ==
  /\ last.agent = a
  /\ last.stream = i
  /\ last.op = "close"
  /\ ~streams[a][i].skip
  /\ streams[a][i].sid0 = TEMPORARY_SESSION_ID
  /\ request[a].fresh
  /\ request[a].quiet
  /\ request[a].sessionHdr # NoHeader
  /\ request[a].executionHdr # NoHeader
  /\ request[a].text # ""

\* C6: when a send starts on the temporary session and the response carries a
\* session id S and an execution id E, followed by text deltas and a normal close,
\* then session S is persisted with [user message with executionId E, agent message
\* with the concatenated deltas], the current session is S and inProgress is false.
C6_SessionCreatedFromResponse ==
  \A a \in Agents : \A i \in 1..Len(streams[a]) :
    C6_Scenario(a, i) =>
      LET S == request[a].sessionHdr
          input == streams[a][i].userMessage.content
      IN /\ HasSession(allSessions, a, S)
         /\ IsExchange(allSessions[a][S].messages, input, request[a].executionHdr,
                       request[a].text)
         /\ messages[a] = allSessions[a][S].messages
         /\ currentSessionId[a] = S
         /\ ~inProgress[a]

\* the scenario of the specification: "Hi " then "there"
C6_Witness ==
  \E a \in Agents : \E i \in 1..Len(streams[a]) :
    /\ C6_Scenario(a, i)
    /\ request[a].text = "Hi there"
    /\ allSessions[a]["sess_1"].messages[1].executionId = "exec_1"

\* C7: deleteSession on the current session removes it from the persisted map of
\* the agent and leaves the current session id equal to a most recently updated
\* remaining session, or to the temporary session id when none remains; the current
\* session id is never the deleted id.
C7_DeleteReselects ==
  [][\A a \in Agents :
       (/\ last'.op = "delete"
        /\ last'.agent = a
        /\ last'.arg = currentSessionId[a]
        /\ ~IsTemporary(last'.arg))
         => LET slice == AgentSessions(allSessions', a)
            IN /\ last'.arg \notin DOMAIN slice
               /\ currentSessionId'[a] # last'.arg
               /\ IF DOMAIN slice = {}
                  THEN currentSessionId'[a] = TEMPORARY_SESSION_ID
                  ELSE currentSessionId'[a] \in MostRecentIds(slice, DOMAIN slice)]_vars


\* ------------------------------------------------------ debug trace properties
\* the events of one execution, in arrival order
EventsOf(executionId) ==
  SelectSeq(hist, LAMBDA ev : ev.executionId = executionId)

ToolItems(trace) == {i \in 1..Len(trace) : trace[i].itemType = "tool_call"}

StartedEvents(evs) ==
  {i \in 1..Len(evs) : evs[i].type = "debug_tool_execution_started"}

\* the last two events of the execution are a started event and a finished event
\* of the same toolCallId
StartedThenFinished(evs) ==
  /\ Len(evs) >= 2
  /\ evs[Len(evs) - 1].type = "debug_tool_execution_started"
  /\ evs[Len(evs)].type = "debug_tool_execution_finished"
  /\ evs[Len(evs) - 1].toolCallId = evs[Len(evs)].toolCallId

\* C9: a started event followed by a finished event with the same executionId and
\* toolCallId yields one ToolExecutionItem for the pair, the last item of that
\* execution's trace, whose status is complete and whose output is the finished
\* event's value; the trace has one tool item per started event, so exactly one
\* when the pair is all the execution has seen.
C9_StartedThenFinishedCompletes ==
  \A e \in TraceExecIds :
    LET evs == EventsOf(e)
        trace == TraceOf(debugData, e)
    IN StartedThenFinished(evs) =>
         /\ Len(trace) >= 1
         /\ trace[Len(trace)].itemType = "tool_call"
         /\ trace[Len(trace)].toolCallId = evs[Len(evs)].toolCallId
         /\ trace[Len(trace)].toolId = evs[Len(evs) - 1].toolId
         /\ trace[Len(trace)].status = "complete"
         /\ trace[Len(trace)].output = evs[Len(evs)].value
         /\ Cardinality(ToolItems(trace)) = Cardinality(StartedEvents(evs))
         /\ (Len(evs) = 2 => Cardinality(ToolItems(trace)) = 1)

\* a retried tool call: an earlier item of the same toolCallId, then the pair
C9_Witness ==
  \E e \in TraceExecIds :
    /\ StartedThenFinished(EventsOf(e))
    /\ Len(EventsOf(e)) = 3
    /\ EventsOf(e)[1].type = "debug_tool_execution_started"
    /\ EventsOf(e)[1].toolCallId = EventsOf(e)[3].toolCallId
    /\ TraceOf(debugData, e)[2].status = "complete"

RECURSIVE TextsOfLen(_)
\* the texts made of n deltas
TextsOfLen(n) ==
  IF n = 0 THEN {""}
  ELSE {p \o d : p \in TextsOfLen(n - 1), d \in ReasoningDeltas}

EndsWith(text, suffix) ==
  \E n \in 0..MaxEvents : \E p \in TextsOfLen(n) : text = p \o suffix

IsReasoning(ev) == ev.type = "llm_reasoning_delta"

\* the last two events are reasoning deltas of one execution with the same index
TwoDeltasSameIndex ==
  /\ Len(hist) >= 2
  /\ IsReasoning(hist[Len(hist) - 1])
  /\ IsReasoning(hist[Len(hist)])
  /\ hist[Len(hist) - 1].index = hist[Len(hist)].index
  /\ hist[Len(hist) - 1].executionId = hist[Len(hist)].executionId

\* the last event is a reasoning delta whose index exceeds every earlier index
DeltaWithGreaterIndex ==
  /\ Len(hist) >= 1
  /\ IsReasoning(hist[Len(hist)])
  /\ \A i \in 1..(Len(hist) - 1) :
       IsReasoning(hist[i]) => hist[i].index < hist[Len(hist)].index

\* C10: two consecutive reasoning deltas with the same index are both in one
\* ReasoningItem of their execution's trace, concatenated in order; a delta whose
\* index is strictly greater than every earlier index starts a new ReasoningItem,
\* the last item of the trace, containing only that delta.
C10_ReasoningDeltasGrouped ==
  /\ TwoDeltasSameIndex =>
       LET trace == TraceOf(debugData, hist[Len(hist)].executionId)
           i == LastReasoningItem(trace)
       IN /\ i # 0
          /\ EndsWith(trace[i].reasoning,
                      hist[Len(hist) - 1].delta \o hist[Len(hist)].delta)
  /\ DeltaWithGreaterIndex =>
       LET trace == TraceOf(debugData, hist[Len(hist)].executionId)
       IN /\ Len(trace) >= 1
          /\ trace[Len(trace)].itemType = "reasoning"
          /\ trace[Len(trace)].reasoning = hist[Len(hist)].delta


\* ------------------------------------------------------ agents side by side
\* C11: for two distinct agent ids A and B, no operation or stream callback of A
\* changes B's transcript, B's inProgress flag, B's current session id or B's slice
\* of the persisted session map.
C11_AgentsIsolated ==
  [][\A a \in Agents : \A b \in Agents \ {a} :
       last'.agent = a
         => /\ messages'[b] = messages[b]
            /\ inProgress'[b] = inProgress[b]
            /\ currentSessionId'[b] = currentSessionId[b]
            /\ AgentSessions(allSessions', b) = AgentSessions(allSessions, b)]_vars


\* ------------------------------------------------------ streams and frames
\* the callbacks fetchEventSource makes for a request
CallbackOps == {"open", "rejected", "delta", "debug", "dropped", "close", "error"}

\* the last step was a send of agent a or a callback of a's newest request
ByNewestStream(a) ==
  /\ last'.agent = a
  /\ \/ last'.op = "send"
     \/ last'.op \in CallbackOps /\ last'.stream = Len(streams[a])

\* C12: once a request has been superseded by a new send of the same agent, none
\* of its callbacks (open, frame, close, error) runs: every callback is one of the
\* newest request, and the transcript, the trace map, the session map and
\* inProgress change only in a send or in a callback of the newest request.
C12_SupersededStreamSilent ==
  [][/\ \A a \in Agents :
          /\ (last'.agent = a /\ last'.op \in CallbackOps)
               => /\ last'.stream = Len(streams'[a])
                  /\ streams'[a][last'.stream].status # "aborted"
          /\ (\/ messages'[a] # messages[a]
              \/ inProgress'[a] # inProgress[a]
              \/ AgentSessions(allSessions', a) # AgentSessions(allSessions, a))
               => ByNewestStream(a)
     /\ debugData' # debugData => \E a \in Agents : ByNewestStream(a)]_vars

\* the first request received frames and was superseded; the second request has
\* received a frame
C12_Witness ==
  \E a \in Agents :
    /\ Len(streams[a]) = 2
    /\ streams[a][1].status = "aborted"
    /\ nFrames[a] = 2
    /\ last.agent = a
    /\ last.op \in {"delta", "debug"}
    /\ last.stream = 2

\* C16: a frame whose payload is malformed JSON or whose type is not recognized
\* leaves the transcript, the trace map, the session map and inProgress unchanged
\* and does not end the request, which stays open; a text frame that follows on the
\* same request is applied to the transcript.
C16_BadFrameDropped ==
  [][\A a \in Agents :
       /\ (last'.agent = a /\ last'.op = "dropped")
            => /\ messages' = messages
               /\ debugData' = debugData
               /\ allSessions' = allSessions
               /\ inProgress' = inProgress
               /\ streams' = streams
               /\ streams'[a][last'.stream].status = "open"
       /\ (last'.agent = a /\ last'.op = "delta" /\ last' # last /\ request[a].dropped)
            => /\ messages'[a] # messages[a]
               /\ LastMessage(messages'[a]).role = "agent"]_vars

\* a frame was dropped and the text frame after it was applied
C16_Witness ==
  \E a \in Agents :
    /\ last.agent = a
    /\ last.op = "delta"
    /\ request[a].dropped
    /\ nFrames[a] = 2
    /\ LastMessage(messages[a]).role = "agent"
    /\ LastMessage(messages[a]).content = request[a].text


\* ------------------------------------------------------ registry properties
\* the runner instances of an agent id
RunnersOf(a) == {r.id : r \in {x \in instances : x.agentId = a}}

RegistryOps == {"mount", "initialize", "unmount"}

\* C13: once an agent id is registered it stays registered with exactly one runner
\* instance, the same one: no mount, unmount or repeated initializeAgent removes the
\* id, creates a second runner for it or touches its requests, and every consumer
\* of the id reads the runner that instance publishes.
C13_OneRunnerPerAgent ==
  [][/\ \A a \in DOMAIN activeAgents :
          /\ a \in DOMAIN activeAgents'
          /\ Cardinality(RunnersOf(a)) = 1
          /\ RunnersOf(a)' = RunnersOf(a)
          /\ last'.op \in RegistryOps
               => /\ streams'[a] = streams[a]
                  /\ inProgress'[a] = inProgress[a]
                  /\ messages'[a] = messages[a]
     /\ \A a \in DOMAIN activeAgents' : Cardinality(RunnersOf(a)') = 1
     /\ \A c \in DOMAIN consumers' :
          (Snapshot(c))' \in (RunnersOf(consumers[c].agentId))']_vars

\* an agent whose url was changed by a second registration and whose consumers
\* have all unmounted still has its first runner, with a request in flight
C13_Witness ==
  \E a \in DOMAIN activeAgents :
    /\ activeAgents[a] = "url_2"
    /\ last.op = "unmount"
    /\ last.agent = a
    /\ ~\E c \in DOMAIN consumers : consumers[c].agentId = a
    /\ LiveStreams(a) # {}
    /\ RunnersOf(a) = {1}
    /\ runnerAtom[a] = 1


\* ------------------------------------------------------ errors
\* a response with a status >= 400 creates no session, moves no session pointer,
\* attaches no execution id and ends the attempt
RejectedCleanly(a) ==
  LET i == last'.stream
  IN /\ currentSessionId'[a] = currentSessionId[a]
     /\ DOMAIN AgentSessions(allSessions', a)
          \subseteq (DOMAIN AgentSessions(allSessions, a)) \cup {currentSessionId[a]}
     /\ \A k \in 1..Len(messages'[a]) : messages'[a][k].executionId # ExecutionIdOf(i)
     /\ streams'[a][i].status = "failed"
     /\ ~inProgress'[a]

\* C14: when the response at open has a status >= 400, no session is created and
\* no execution id is attached, the attempt ends, and the send fails with an error
\* that is the Not Found error for status 404 and another error for every other
\* status.
C14_RejectionDistinguished ==
  [][\A a \in Agents :
       (last'.agent = a /\ last'.op = "rejected")
         => /\ RejectedCleanly(a)
            /\ streams'[a][last'.stream].result \notin {"pending", "resolved"}
            /\ (last'.arg = "404")
                 <=> (streams'[a][last'.stream].result = OnOpenError(404))]_vars


IsPrefix(s, t) == Len(s) <= Len(t) /\ SubSeq(t, 1, Len(s)) = s

\* C15: after an error of a request at any point (rejected at open, transport error
\* before or after the response opened), inProgress is false, the send is rejected,
\* and when the current session is not the temporary one its persisted messages are
\* the live transcript, which still holds everything it held before the error.
C15_ErrorLeavesSynchronized ==
  [][\A a \in Agents :
       (last'.agent = a /\ last'.op \in {"error", "rejected"})
         => /\ ~inProgress'[a]
            /\ streams'[a][last'.stream].status = "failed"
            /\ streams'[a][last'.stream].result \notin {"pending", "resolved"}
            /\ ~IsTemporary(currentSessionId'[a])
                 => /\ HasSession(allSessions', a, currentSessionId'[a])
                    /\ allSessions'[a][currentSessionId'[a]].messages = messages'[a]
                    /\ IsPrefix(messages[a], messages'[a])]_vars

\* a request failed after a text delta, on a session that is persisted with the
\* agent message of that delta
C15_Witness ==
  \E a \in Agents :
    /\ last.agent = a
    /\ last.op = "error"
    /\ request[a].text # ""
    /\ ~IsTemporary(currentSessionId[a])
    /\ HasSession(allSessions, a, currentSessionId[a])
    /\ messages[a] # << >>
    /\ LastMessage(messages[a]).role = "agent"
    /\ allSessions[a][currentSessionId[a]].messages = messages[a]


\* ------------------------------------------------------ session repository
\* C17: for every session id of an agent, while it exists, updatedAt never
\* decreases in any step (sync, createSessionFromResponse, switch, delete of another
\* session, stream callbacks), the clock being non-decreasing.
C17_UpdatedAtMonotonic ==
  [][\A a \in Agents :
       \A sid \in (DOMAIN AgentSessions(allSessions, a))
                    \cap (DOMAIN AgentSessions(allSessions', a)) :
         allSessions[a][sid].updatedAt <= allSessions'[a][sid].updatedAt]_vars

\* a session created at time 0 was synchronized at time 1
C17_Witness ==
  \E a \in Agents : \E sid \in DOMAIN AgentSessions(allSessions, a) :
    /\ allSessions[a][sid].createdAt = 0
    /\ allSessions[a][sid].updatedAt = 1
    /\ last.op \in {"delta", "close", "optimistic", "send"}

\* the roles and contents of a transcript
Contents(msgs) == [k \in 1..Len(msgs) |-> <<msgs[k].role, msgs[k].content>>]

\* C20: at open, when the send began on the temporary session and the response has
\* a session id S, session S is created with the transcript accumulated so far and
\* the current session id becomes S; in every other case (no session id in the
\* response, or a send that began on an established session) the current session
\* id is unchanged and no session is inserted or overwritten: the session map
\* changes at most by the synchronization of the current session after the
\* execution id was attached.
C20_SessionHeaderOnlyOnTemporary ==
  [][\A a \in Agents :
       (last'.agent = a /\ last'.op = "open" /\ last' # last)
         => LET S == request'[a].sessionHdr
                sid0 == streams[a][last'.stream].sid0
            IN IF IsTemporary(sid0) /\ S # NoHeader
               THEN /\ HasSession(allSessions', a, S)
                    /\ allSessions'[a][S].id = S
                    /\ allSessions'[a][S].createdAt = clock
                    /\ Contents(allSessions'[a][S].messages) = Contents(messages[a])
                    /\ currentSessionId'[a] = S
               ELSE /\ currentSessionId'[a] = currentSessionId[a]
                    /\ allSessions' \in
                         {allSessions,
                          SyncSession(allSessions, a, currentSessionId[a], messages'[a],
                                      clock)}]_vars

\* a second send began on the session the first response had created, at a later
\* time, and its response named the other session id: nothing moved
C20_Witness ==
  \E a \in Agents :
    /\ last.agent = a
    /\ last.op = "open"
    /\ last.stream = 2
    /\ clock = 1
    /\ streams[a][2].sid0 \in RepositorySessionIds
    /\ request[a].sessionHdr \in RepositorySessionIds \ {streams[a][2].sid0}
    /\ currentSessionId[a] = streams[a][2].sid0
    /\ HasSession(allSessions, a, currentSessionId[a])
    /\ allSessions[a][currentSessionId[a]].createdAt = 0
    /\ request[a].sessionHdr \notin DOMAIN allSessions[a]


\* ------------------------------------------------------ execution id at open
\* the last step was the open of a request whose response has an execution id
OpenedWithExecutionId(a) ==
  /\ last'.agent = a
  /\ last'.op = "open"
  /\ last' # last
  /\ request'[a].executionHdr # NoHeader

\* the step changed at most the executionId of the last message
OnlyLastExecutionId(msgs, msgs1) ==
  /\ Len(msgs1) = Len(msgs)
  /\ Front(msgs1) = Front(msgs)
  /\ LastMessage(msgs1).role = LastMessage(msgs).role
  /\ LastMessage(msgs1).content = LastMessage(msgs).content

\* C19 as stated: the execution id of the response is attached to the last message
\* only if it is a user message and never replaces an executionId the message has;
\* when the last message is an agent message or the transcript is empty the
\* transcript is unchanged.
C19_NeverReplacesExecutionId ==
  [][\A a \in Agents :
       OpenedWithExecutionId(a) =>
         IF messages[a] # << >> /\ LastMessage(messages[a]).role = "user"
         THEN /\ OnlyLastExecutionId(messages[a], messages'[a])
              /\ LastMessage(messages'[a]).executionId =
                   IF LastMessage(messages[a]).executionId = Undefined
                   THEN request'[a].executionHdr
                   ELSE LastMessage(messages[a]).executionId
         ELSE messages'[a] = messages[a]]_vars

\* C19, amended: the execution id of the response is attached to the last message
\* only if it is a user message, and replaces the provisional executionId that
\* handleSend gave the message; when the last message is an agent message or the
\* transcript is empty the transcript is unchanged.
C19_ReplacesProvisionalExecutionId ==
  [][\A a \in Agents :
       OpenedWithExecutionId(a) =>
         IF messages[a] # << >> /\ LastMessage(messages[a]).role = "user"
         THEN /\ OnlyLastExecutionId(messages[a], messages'[a])
              /\ LastMessage(messages'[a]).executionId = request'[a].executionHdr
         ELSE messages'[a] = messages[a]]_vars

\* the response of the second request, a send with skipUserMessage, opened with its
\* execution id and the user message of the first send, last of the transcript,
\* carries it
C19_Witness ==
  \E a \in Agents :
    /\ last.agent = a
    /\ last.op = "open"
    /\ last.stream = 2
    /\ streams[a][2].skip
    /\ request[a].executionHdr = ExecutionIdOf(2)
    /\ messages[a] # << >>
    /\ LastMessage(messages[a]).role = "user"
    /\ LastMessage(messages[a]).executionId = ExecutionIdOf(2)


\* ------------------------------------------------------ synced atom properties
\* the last step was a write whose first storage.setItem was rejected for quota
RejectedWrite == last'.op = "write" /\ writeResult' \in {"retried", "threw"}

\* C18: when a write of a synced atom is rejected by the storage for quota and no
\* degrade function was supplied, the in-memory value is the new value, the
\* persisted value is left as it was and no error reaches the caller of the write;
\* with a degrade function the degraded value is written in one retry.
C18_QuotaFailureSilent ==
  [][RejectedWrite =>
       /\ writeResult' # "threw"
       /\ IF last'.arg = "none"
          THEN storage' = storage
          ELSE storage' = <<OverrideValue(last'.arg, baseAtom')>>]_vars

\* C29 as stated: after any sequence of writes of a synced atom (a value, an updater
\* of the previous value, RESET) the in-memory value equals the value the Storage
\* holds under the key, or initialValue when the key is absent; RESET restores
\* initialValue and removes the key.
C29_InMemoryEqualsStored ==
  [][/\ baseAtom' = GetItem(storage')
     /\ last'.op = "reset" => (baseAtom' = InitialValue /\ storage' = NoItem)]_vars

\* C29, amended: after a write the Storage accepted, and after RESET, the in-memory
\* value equals the value the Storage holds under the key, or initialValue when the
\* key is absent; after a write the Storage rejected for quota the Storage holds the
\* degraded value, or what it held before when the retry is rejected too, and not
\* the in-memory value; RESET restores initialValue and removes the key.
C29_InMemoryEqualsStoredIfAccepted ==
  [][/\ writeResult' \in {"stored", "removed"} => baseAtom' = GetItem(storage')
     /\ writeResult' = "retried"
          => /\ storage' = <<OverrideValue(last'.arg, baseAtom')>>
             /\ baseAtom' # GetItem(storage')
     /\ writeResult' = "threw"
          => /\ storage' = storage
             /\ baseAtom' # GetItem(storage')
     /\ last'.op = "reset" => (baseAtom' = InitialValue /\ storage' = NoItem)]_vars

\* a value was stored, and a later write was rejected: the in-memory value is the
\* new one and the Storage still holds the old one
C29_Witness ==
  /\ writeResult = "threw"
  /\ storage # NoItem
  /\ Len(GetItem(storage)) = QuotaLen
  /\ Len(baseAtom) > QuotaLen
  /\ baseAtom # GetItem(storage)

\* ------------------------------------------------------ request headers
\* C21: the request of a send carries the session-id header if and only if a
\* session is established: on the temporary session no session-id header is sent,
\* otherwise the header is the current session id.
C21_SessionHeaderIffEstablished ==
  \A a \in Agents : \A i \in 1..Len(streams[a]) :
    LET st == streams[a][i]
    IN IF IsTemporary(st.sid0)
       THEN st.sessionIdHeader = NoHeader
       ELSE st.sessionIdHeader = st.sid0

\* ------------------------------------------------------ trace reducer steps
\* the event the reducer handled in this step
Handled == hist'[Len(hist')]

HandledOne == Len(hist') = Len(hist) + 1 /\ Handled.type # "handlers"

\* the positions of the trace whose item is a tool item of the toolCallId
Matches(trace, toolCallId) ==
  {i \in 1..Len(trace) : IsToolItem(trace[i], toolCallId)}

\* the traces of the other executions are what they were
OtherTracesKept(executionId) ==
  \A e \in TraceExecIds \ {executionId} : TraceOf(debugData', e) = TraceOf(debugData, e)

\* C22: for an inputs, finished, error or log event, when several tool items of the
\* trace of the execution have the toolCallId of the event only the last of them
\* may change and every other item of the trace is unchanged; when none has it, no
\* item is created or changed.
C22_OnlyLastMatchChanged ==
  [][(HandledOne /\ Handled.type \in ToolEventTypes) =>
       LET ev == Handled
           trace == TraceOf(debugData, ev.executionId)
           trace1 == TraceOf(debugData', ev.executionId)
           hits == Matches(trace, ev.toolCallId)
       IN /\ Len(trace1) = Len(trace)
          /\ \A i \in 1..Len(trace) : (hits = {} \/ i # Max(hits)) => trace1[i] = trace[i]
          /\ hits # {} => /\ IsToolItem(trace1[Max(hits)], ev.toolCallId)
                          /\ trace1[Max(hits)].toolId = trace[Max(hits)].toolId
          /\ OtherTracesKept(ev.executionId)]_vars

\* two tool items have the same toolCallId, an event for it came last and changed
\* the second of them
C22_Witness ==
  /\ Len(hist) = 3
  /\ hist[3].type = "debug_tool_execution_finished"
  /\ LET trace == TraceOf(debugData, hist[3].executionId)
     IN /\ Len(trace) = 2
        /\ Cardinality(Matches(trace, hist[3].toolCallId)) = 2
        /\ trace[1].status = "progress"
        /\ trace[2].status = "complete"

\* ------------------------------------------------------ reasoning cursor
\* the indexes of the reasoning deltas among the events k..Len(evs) of evs
IndexesFrom(evs, k) ==
  {evs[j].index : j \in {m \in k..Len(evs) : IsReasoning(evs[m])}}

\* the position after the last creation of handlers in evs (1 when there is none)
HandlersStart(evs) ==
  Max({j + 1 : j \in {m \in 1..Len(evs) : evs[m].type = "handlers"}} \cup {1})

\* this step pushed one item on the trace of the event it handled
PushedItem ==
  Len(TraceOf(debugData', Handled.executionId))
    = Len(TraceOf(debugData, Handled.executionId)) + 1

\* C23 as stated: the reasoning cursor never decreases and is not reset between
\* executions or sends; a reasoning delta starts a new ReasoningItem exactly when its
\* index exceeds every index seen before, in any execution.
C23_CursorNeverReset ==
  [][/\ lastReasoningIndex' >= lastReasoningIndex
     /\ (HandledOne /\ IsReasoning(Handled)) =>
          (PushedItem <=> \A x \in IndexesFrom(hist, 1) : x < Handled.index)]_vars

\* C23, amended: with one set of debug handlers the cursor never decreases and is
\* not reset between executions, and a reasoning delta starts a new ReasoningItem
\* exactly when its index exceeds every index those handlers have seen, in any
\* execution; the handlers a later render creates start again with the cursor -1.
C23_CursorMonotonicPerHandlers ==
  [][/\ Len(hist') = Len(hist) + 1
     /\ IF Handled.type = "handlers"
        THEN lastReasoningIndex' = -1
        ELSE /\ lastReasoningIndex' >= lastReasoningIndex
             /\ lastReasoningIndex' = Max(IndexesFrom(hist', HandlersStart(hist')) \cup {-1})
             /\ IsReasoning(Handled) =>
                  (PushedItem <=>
                     \A x \in IndexesFrom(hist, HandlersStart(hist)) : x < Handled.index)]_vars

\* a delta advanced the cursor, a render created new handlers, and a delta of the
\* same execution whose index is not greater started a second ReasoningItem
C23_Witness ==
  /\ Len(hist) = 3
  /\ IsReasoning(hist[1])
  /\ hist[2].type = "handlers"
  /\ IsReasoning(hist[3])
  /\ hist[3].executionId = hist[1].executionId
  /\ hist[3].index <= hist[1].index
  /\ Len(TraceOf(debugData, hist[3].executionId)) = 2
  /\ lastReasoningIndex = hist[3].index

\* ------------------------------------------------------ trace growth
\* what identifies an item: its variant and, for a tool item, its toolId and toolCallId
ItemKey(item) ==
  IF item.itemType = "tool_call"
  THEN <<item.itemType, item.toolId, item.toolCallId>>
  ELSE <<item.itemType>>

\* the event handled in this step adds an item to the trace of the execution
AddsItem(executionId) ==
  /\ HandledOne
  /\ Handled.executionId = executionId
  /\ \/ Handled.type \in {"debug_tool_execution_started", "agent_handoff"}
     \/ IsReasoning(Handled) /\ lastReasoningIndex < Handled.index

\* C24: the trace of every execution only grows at its end: its length never
\* decreases, no item is removed or reordered, the variant, toolId and toolCallId of
\* an item never change once it is appended, and exactly one item is added by a
\* started event, a handoff event and a reasoning delta that advances the index,
\* none by any other event.
C24_TraceGrowsAtEnd ==
  [][\A e \in TraceExecIds :
       LET trace == TraceOf(debugData, e)
           trace1 == TraceOf(debugData', e)
       IN /\ Len(trace1) = Len(trace) + (IF AddsItem(e) THEN 1 ELSE 0)
          /\ \A i \in 1..Len(trace) :
               i <= Len(trace1) /\ ItemKey(trace1[i]) = ItemKey(trace[i])]_vars

\* a tool item was started, a handoff item was appended after it, and a later
\* finished event changed the tool item where it stood
C24_Witness ==
  /\ Len(hist) = 3
  /\ hist[1].type = "debug_tool_execution_started"
  /\ hist[2].type = "agent_handoff"
  /\ hist[3].type = "debug_tool_execution_finished"
  /\ LET trace == TraceOf(debugData, hist[1].executionId)
     IN /\ Len(trace) = 2
        /\ trace[1].itemType = "tool_call"
        /\ trace[1].status = "complete"
        /\ trace[2].itemType = "handoff"

\* ------------------------------------------------------ frame routing
\* the records of the session map other than the one of session sid of agent a
OtherRecordsKept(a, sid) ==
  \A b \in Agents :
    /\ (b # a) => AgentSessions(allSessions', b) = AgentSessions(allSessions, b)
    /\ \A s \in (DOMAIN AgentSessions(allSessions, b)
                   \cup DOMAIN AgentSessions(allSessions', b)) \ {sid} :
         /\ HasSession(allSessions, b, s)
         /\ HasSession(allSessions', b, s)
         /\ allSessions'[b][s] = allSessions[b][s]

\* C25: frame routing is disjoint: a frame whose type starts with debug_, or is
\* llm_reasoning_delta or agent_handoff, changes only the trace map and leaves the
\* transcript and the session map unchanged; an llm_text_delta frame changes only
\* the transcript and the record of the current session and leaves the trace map
\* unchanged.
C25_RoutingDisjoint ==
  [][\A a \in Agents :
       /\ (last'.agent = a /\ last'.op = "debug")
            => /\ messages' = messages
               /\ allSessions' = allSessions
               /\ currentSessionId' = currentSessionId
               /\ inProgress' = inProgress
       /\ (last'.agent = a /\ last'.op = "delta")
            => /\ debugData' = debugData
               /\ lastReasoningIndex' = lastReasoningIndex
               /\ currentSessionId' = currentSessionId
               /\ inProgress' = inProgress
               /\ OtherRecordsKept(a, currentSessionId[a])
               /\ \A b \in Agents \ {a} : messages'[b] = messages[b]]_vars

\* a request received a text frame and then a reasoning frame: the transcript ends
\* with the text and the trace of the execution holds the reasoning
C25_Witness ==
  \E a \in Agents :
    /\ last.agent = a
    /\ last.op = "debug"
    /\ last.arg = "llm_reasoning_delta"
    /\ nFrames[a] = 2
    /\ Len(messages[a]) > 0
    /\ LastMessage(messages[a]).role = "agent"
    /\ LastMessage(messages[a]).content = request[a].text
    /\ request[a].text # ""
    /\ HasSession(allSessions, a, currentSessionId[a])
    /\ allSessions[a][currentSessionId[a]].messages = messages[a]
    /\ \E e \in DOMAIN debugData :
         Len(debugData[e]) = 1 /\ debugData[e][1].itemType = "reasoning"

\* ------------------------------------------------------ inProgress
EndOps == {"close", "error", "rejected"}

\* C26: inProgress becomes true when a send starts and stays true while the newest
\* request of the agent is open; when that request closes or fails inProgress becomes
\* false and the current session, unless temporary, holds the latest transcript;
\* nothing but a close or a failure of a request makes inProgress false, so a
\* request that never closes or fails leaves it true forever.
C26_InProgressFollowsStream ==
  [][\A a \in Agents :
       /\ (last'.agent = a /\ last'.op = "send") => inProgress'[a]
       /\ NewestLive(streams'[a]) => inProgress'[a]
       /\ (last'.agent = a /\ last'.op \in EndOps)
            => /\ ~inProgress'[a]
               /\ ~NewestLive(streams'[a])
               /\ ~IsTemporary(currentSessionId'[a])
                    => /\ HasSession(allSessions', a, currentSessionId'[a])
                       /\ allSessions'[a][currentSessionId'[a]].messages = messages'[a]
                       /\ IsPrefix(messages[a], messages'[a])
       /\ (inProgress[a] /\ ~inProgress'[a])
            => (last'.agent = a /\ last'.op \in EndOps)]_vars

\* the user switched to another session while a request was open, and the request
\* closed: the session switched to holds the transcript of the request
C26_Witness ==
  \E a \in Agents :
    /\ last.agent = a
    /\ last.op = "close"
    /\ ~request[a].quiet
    /\ ~inProgress[a]
    /\ ~IsTemporary(currentSessionId[a])
    /\ HasSession(allSessions, a, currentSessionId[a])
    /\ Len(messages[a]) >= 2
    /\ allSessions[a][currentSessionId[a]].messages = messages[a]

\* ------------------------------------------------------ sync
\* this step of agent a called syncSessionRef.current and nothing else that writes
\* the session map
SyncedBy(a) ==
  /\ last'.agent = a
  /\ \/ last'.op \in {"delta", "close", "optimistic", "error", "rejected"}
     \/ last'.op = "send" /\ ~streams'[a][last'.stream].skip

C28_SwitchLoadsSession ==
  [][\A a \in Agents :
       (last'.agent = a /\ last'.op = "switch")
         => /\ currentSessionId'[a] =
                 (IF last'.arg = Undefined THEN TEMPORARY_SESSION_ID ELSE last'.arg)
            /\ allSessions' = allSessions
            /\ ~inProgress[a]
                 => messages'[a] = LoadSession(allSessions, a, currentSessionId'[a])]_vars

\* ------------------------------------------------------ initial session
\* C30: getInitialSessionId returns the id of a session of the agent whose updatedAt
\* is maximal among the persisted sessions of the agent, and the temporary sentinel
\* exactly when the agent has no persisted session.
C30_InitialSessionMostRecent ==
  [][\A a \in Agents :
       (last'.agent = a /\ last'.op = "mount")
         => LET slice == AgentSessions(allSessions, a)
                sid1 == currentSessionId'[a]
            IN IF DOMAIN slice = {}
               THEN sid1 = TEMPORARY_SESSION_ID
               ELSE /\ sid1 \in DOMAIN slice
                    /\ \A t \in DOMAIN slice :
                         slice[t].updatedAt <= slice[sid1].updatedAt]_vars

\* ------------------------------------------------------ optimistic message
\* C31: addOptimisticMessage(input) appends exactly one user message with content
\* input at the end of the transcript and synchronizes the current session, without
\* opening a request, aborting a request in flight or changing inProgress.
C31_OptimisticAppendsOne ==
  [][\A a \in Agents :
       (last'.agent = a /\ last'.op = "optimistic")
         => /\ Len(messages'[a]) = Len(messages[a]) + 1
            /\ Front(messages'[a]) = messages[a]
            /\ LastMessage(messages'[a]).role = "user"
            /\ LastMessage(messages'[a]).content = last'.arg
            /\ streams' = streams
            /\ inProgress' = inProgress
            /\ currentSessionId' = currentSessionId
            /\ IF IsTemporary(currentSessionId[a])
               THEN allSessions' = allSessions
               ELSE /\ HasSession(allSessions', a, currentSessionId[a])
                    /\ allSessions'[a][currentSessionId[a]].messages = messages'[a]]_vars

\* an optimistic message was added while a request was open on a persisted session
C31_Witness ==
  \E a \in Agents :
    /\ last.agent = a
    /\ last.op = "optimistic"
    /\ inProgress[a]
    /\ NewestLive(streams[a])
    /\ Len(messages[a]) >= 2
    /\ LastMessage(messages[a]).content = last.arg
    /\ HasSession(allSessions, a, currentSessionId[a])
    /\ allSessions[a][currentSessionId[a]].messages = messages[a]

\* ------------------------------------------------------ deleteSession
\* C32: deleteSession with the temporary sentinel or a falsy id changes nothing: the
\* session map, the current session id and the transcript are unchanged.
C32_DeleteTemporaryIsNoOp ==
  [][\A a \in Agents :
       (last'.agent = a /\ last'.op = "delete" /\ IsTemporary(last'.arg))
         => /\ allSessions' = allSessions
            /\ currentSessionId' = currentSessionId
            /\ messages' = messages
            /\ inProgress' = inProgress
            /\ streams' = streams]_vars

\* deleteSession was called with the sentinel while the agent was on the temporary
\* session with messages in its transcript and had a persisted session
C32_Witness ==
  \E a \in Agents :
    /\ last.agent = a
    /\ last.op = "delete"
    /\ last.arg = TEMPORARY_SESSION_ID
    /\ currentSessionId[a] = TEMPORARY_SESSION_ID
    /\ DOMAIN AgentSessions(allSessions, a) # {}
    /\ Len(messages[a]) > 0

\* ------------------------------------------------------ session of a stream
\* the session request i of agent a belongs to: the one current when the send began
\* or, when that was the temporary one, the one its response header created
\* (NoHeader when there is none)
SessionOfStream(a, i) ==
  IF IsTemporary(streams[a][i].sid0) THEN request[a].sessionHdr ELSE streams[a][i].sid0

\* C33: the frames, the close and the error of a request in flight are synchronized
\* only into the session the request belongs to: after a switch to another session
\* while the request is open, no callback of the request writes the record of that
\* other session.
C33_StreamWritesOwnSession ==
  [][\A a \in Agents :
       (last'.agent = a /\ last'.op \in {"delta", "close", "error"})
         => \A s \in DOMAIN AgentSessions(allSessions, a) :
              s # SessionOfStream(a, last'.stream)
                => /\ HasSession(allSessions', a, s)
                   /\ allSessions'[a][s] = allSessions[a][s]]_vars

\* ------------------------------------------------------ well-formed records
\* C34: every record of the session map is well formed in every reachable state:
\* the record stored under key k has id k and has a createdAt, also after a switch
\* to an id that has no record followed by a send or an optimistic message.
C34_RecordsWellFormed ==
  \A a \in DOMAIN allSessions : \A k \in DOMAIN allSessions[a] :
    /\ allSessions[a][k].id = k
    /\ allSessions[a][k].createdAt # UndefinedTime

\* ------------------------------------------------------ deleted sessions
\* C35: after deleteSession(s) the id s is absent from the session map of the agent
\* and stays absent through every later frame, close and error of the request that
\* was in flight at the time of the delete; it comes back only when a later
\* response header assigns s again.
C35_DeletedStaysAbsent ==
  \A a \in Agents : \A s \in request[a].deleted : ~HasSession(allSessions, a, s)

\* ------------------------------------------------------ end of a send on the temporary session
\* C36: when a request ends (close or error) while the current session is still the
\* temporary one because the response had no session-id header, the return to idle
\* does not discard the transcript: the messages accumulated during the send are
\* still in the transcript afterwards.
C36_TemporaryTranscriptKept ==
  [][\A a \in Agents :
       (/\ last'.agent = a
        /\ last'.op \in {"close", "error"}
        /\ currentSessionId[a] = TEMPORARY_SESSION_ID
        /\ streams[a][last'.stream].sid0 = TEMPORARY_SESSION_ID
        /\ request[a].sessionHdr = NoHeader)
         => IsPrefix(messages[a], messages'[a])]_vars

\* ------------------------------------------------------ text of an execution
\* C37: the content of an agent message consists only of the data of text frames
\* whose execution id is the executionId of the message: the message a text frame
\* is appended to, or starts, carries the execution id of the frame, also for a
\* send with skipUserMessage when the last message is an agent message.
C37_TextStaysInItsExecution ==
  [][\A a \in Agents :
       (last'.agent = a /\ last'.op = "delta")
         => /\ Len(messages'[a]) > 0
            /\ LastMessage(messages'[a]).role = "agent"
            /\ LastMessage(messages'[a]).executionId = ExecutionIdOf(last'.stream)]_vars

\* ------------------------------------------------------ tool events without a match
\* C38: an inputs, finished, error or log event that matches no tool item of the
\* trace of its execution leaves the whole trace map unchanged, its set of
\* execution-id keys included: no entry is created for an execution id that had
\* no trace, and the traces of the other executions are unchanged.
C38_UnmatchedEventKeepsMap ==
  [][(/\ HandledOne
      /\ Handled.type \in ToolEventTypes
      /\ Matches(TraceOf(debugData, Handled.executionId), Handled.toolCallId) = {})
       => /\ DOMAIN debugData' = DOMAIN debugData
          /\ debugData' = debugData]_vars

\* ------------------------------------------------------ reasoning text kept
\* the deltas of the reasoning events of the execution among evs, concatenated in
\* arrival order
RECURSIVE DeltasOf(_, _)
DeltasOf(evs, executionId) ==
  IF Len(evs) = 0 THEN ""
  ELSE LET ev == evs[Len(evs)]
           before == DeltasOf(SubSeq(evs, 1, Len(evs) - 1), executionId)
       IN IF IsReasoning(ev) /\ ev.executionId = executionId
          THEN before \o ev.delta ELSE before

\* the texts of the reasoning items of the trace, concatenated in trace order
RECURSIVE ReasoningOf(_)
ReasoningOf(trace) ==
  IF Len(trace) = 0 THEN ""
  ELSE LET item == trace[Len(trace)]
           before == ReasoningOf(SubSeq(trace, 1, Len(trace) - 1))
       IN IF item.itemType = "reasoning" THEN before \o item.reasoning ELSE before

\* C39: no reasoning text is lost: after any sequence of reasoning deltas the text
\* of every delta is, in arrival order, in the reasoning items of the trace of
\* the execution id of that delta, also when the index of the delta does not
\* exceed the cursor and the trace of that execution has no reasoning item yet.
C39_NoReasoningTextLost ==
  \A e \in TraceExecIds : ReasoningOf(TraceOf(debugData, e)) = DeltasOf(hist, e)

====
